---- MODULE Spec2Model ----
(***************************************************************************)
(* Model of aws/lamdba/control-resource.py: a Lambda handler that starts,  *)
(* stops or reports the status of EC2 instances and Auto Scaling Groups    *)
(* selected by the tag Service == target_service["service"].               *)
(*                                                                         *)
(* One invocation of lambda_handler is one action, and a behaviour is one  *)
(* invocation: the handler keeps nothing between invocations, so a second  *)
(* one is another behaviour from the same Init.  The provider inventory    *)
(* (what describe_instances / describe_auto_scaling_groups answer) and the *)
(* process environment are fixed per behaviour and chosen by Init; the     *)
(* event is the input of the action.  The observable results of an         *)
(* invocation are the response (or the uncaught exception), the list the   *)
(* status branch computed, and the provider calls issued, in order.        *)
(*                                                                         *)
(* Python values whose type the code inspects are records tagged with      *)
(* their Python type.  A Python str that the code assembles by             *)
(* concatenation is a sequence of chunks (concatenation is \o), so that    *)
(* containment can be stated.  The Japanese message literals of the source *)
(* are romanised.                                                          *)
(***************************************************************************)
EXTENDS Integers, Sequences, FiniteSets, TLC

VARIABLES
    exec_env,      \* os.environ.get(EXEC_ENV), "" when unset
    reservations,  \* describe_instances()["Reservations"]
    groups,        \* describe_auto_scaling_groups()["AutoScalingGroups"]
    pc,            \* "Received" | "Responded" | "Raised"
    event,         \* the event of the last invocation
    response,      \* the dict lambda_handler returned (<<>> if none)
    exception,     \* the exception that escaped lambda_handler ("" if none)
    res,           \* the list built by get_aws_service_status (<<>> if not run)
    calls          \* provider calls issued by the last invocation, in order

vars == <<exec_env, reservations, groups, pc, event, response, exception, res, calls>>

----------------------------------------------------------------------------
(* Bounds *)

MaxInstances == 2
MaxGroups == 2
MaxServices == 2

----------------------------------------------------------------------------
(* Python values *)

PyNone == [type |-> "NoneType"]
PyStr(s) == [type |-> "str", str |-> s]
PyInt(n) == [type |-> "int", int |-> n]
PyList(l) == [type |-> "list", list |-> l]
PyDict(d) == [type |-> "dict", dict |-> d]

\* The empty dict: a function with empty domain.
EmptyDict == <<>>

\* Python truth value testing, as used by `if not x` / `if x`.
Truthy(v) ==
    CASE v.type = "NoneType" -> FALSE
      [] v.type = "str"      -> v.str # ""
      [] v.type = "int"      -> v.int # 0
      [] v.type = "list"     -> Len(v.list) > 0
      [] v.type = "dict"     -> DOMAIN v.dict # {}
      [] OTHER               -> TRUE

isinstance(v, t) == v.type = t

\* json.dumps of a str without characters that need escaping: one chunk.
json_dumps_str(s) == <<"\"" \o s \o "\"">>

\* Truth value of a str held as chunks: its length is not zero.
TruthyText(text) == \E i \in 1..Len(text) : text[i] # ""

----------------------------------------------------------------------------
(* ControlService and validate_params *)

ControlService(aws_service, target_service, action, env) ==
    [aws_service |-> aws_service, target_service |-> target_service,
     action |-> action, exec_env |-> env]

EventKeys == <<"aws_service", "target_service", "action">>

\* The first of the three subscriptions event[key] that raises KeyError
\* (0 if none does).
FirstMissing(ev) ==
    IF \A i \in 1..3 : EventKeys[i] \in DOMAIN ev THEN 0
    ELSE CHOOSE i \in 1..3 : /\ EventKeys[i] \notin DOMAIN ev
                             /\ \A j \in 1..(i-1) : EventKeys[j] \in DOMAIN ev

BadRequest(text) == [statusCode |-> 400, body |-> json_dumps_str(text)]

\* The required / invalid check of one field; EmptyDict when it passes.
CheckField(name, value, type) ==
    IF ~Truthy(value) THEN BadRequest(name \o " is required!")
    ELSE IF ~isinstance(value, type) THEN BadRequest(name \o " is invalid!")
    ELSE EmptyDict

validate_params(ev, env) ==
    IF FirstMissing(ev) # 0
    THEN [raised |-> "KeyError", control_service |-> PyNone, validate_result |-> EmptyDict]
    ELSE LET aws_service == ev["aws_service"]
             target_service == ev["target_service"]
             action == ev["action"]
             r1 == CheckField("aws_service", aws_service, "list")
             r2 == CheckField("target_service", target_service, "dict")
             r3 == CheckField("action", action, "str")
             failed == IF DOMAIN r1 # {} THEN r1
                       ELSE IF DOMAIN r2 # {} THEN r2
                       ELSE r3
         IN IF DOMAIN failed # {}
            THEN [raised |-> "",
                  control_service |-> ControlService(PyNone, PyNone, PyNone, env),
                  validate_result |-> failed]
            ELSE [raised |-> "",
                  control_service |-> ControlService(aws_service, target_service, action, env),
                  validate_result |-> EmptyDict]

----------------------------------------------------------------------------
(* Insertion-ordered dicts of the status records: sequences of entries     *)
(* [key, str] or [key, num].                                               *)

DictHas(d, k) == \E i \in 1..Len(d) : d[i].key = k

\* d[k] = v: replaces the value of an existing key in place, else appends.
DictSet(d, entry) ==
    IF DictHas(d, entry.key)
    THEN [i \in 1..Len(d) |-> IF d[i].key = entry.key THEN entry ELSE d[i]]
    ELSE Append(d, entry)

StrEntry(k, s) == [key |-> k, str |-> s]
NumEntry(k, n) == [key |-> k, num |-> n]

----------------------------------------------------------------------------
(* AWSClient and get_resource *)

\* The service names for which boto3.client builds a client; for any other
\* name the constructor raises the ResourceNotExistsError that get_resource
\* turns into None.  AWS_REGION is set, as it is in the Lambda runtime.
Boto3Services == {"ec2", "autoscaling", "s3"}

AWSClient(aws_service_name) == [type |-> "AWSClient", aws_service_name |-> aws_service_name]

\* Mutant: the missing client is not detected.
get_resource_Always(aws_service_name) == AWSClient(aws_service_name)

get_resource(aws_service_name) ==
    IF aws_service_name \in Boto3Services THEN AWSClient(aws_service_name) ELSE PyNone

----------------------------------------------------------------------------
(* Provider calls.  A loop state is [calls, raised] (plus result for the   *)
(* status functions); a loop stops at the first exception.                 *)

Issue(st, call) == [st EXCEPT !.calls = Append(@, call)]

\* response["Reservations"][*]["Instances"][*], in the order of the two loops.
RECURSIVE Instances(_)
Instances(rs) == IF rs = <<>> THEN <<>> ELSE Head(rs).Instances \o Instances(Tail(rs))

\* control_service.target_service["service"] exists.
HasServiceKey(control_service) == "service" \in DOMAIN control_service.target_service.dict

TargetTag(control_service) == control_service.target_service.dict["service"]

----------------------------------------------------------------------------
(* update_ec2 *)

\* Mutant: start is guarded by "not running" instead of "stopped".
IsStopped_NotRunning(instance) == instance.State.Name # "running"

IsStopped(instance) == instance.State.Name = "stopped"

IsRunning(instance) == instance.State.Name = "running"

\* Mutant: the spot exception is missing.
IsSpot_Never(instance) == FALSE

IsSpot(instance) ==
    "InstanceLifecycle" \in DOMAIN instance /\ instance.InstanceLifecycle = "spot"

RECURSIVE update_ec2_tags(_, _, _, _)
update_ec2_tags(instance, control_service, k, st) ==
    IF k > Len(instance.Tags) THEN st
    ELSE LET tag == instance.Tags[k]
             action == control_service.action.str
             id == instance.InstanceId
             next(s) == update_ec2_tags(instance, control_service, k + 1, s)
         IN IF tag.Key # "Service" THEN next(st)
            ELSE IF ~HasServiceKey(control_service) THEN [st EXCEPT !.raised = "KeyError"]
            ELSE IF tag.Value # TargetTag(control_service) THEN next(st)
            ELSE IF action = "start"
                 THEN IF IsStopped(instance)
                      THEN next(Issue(st, [op |-> "start_instances", InstanceIds |-> <<id>>]))
                      ELSE next(st)
            ELSE IF action = "stop"
                 THEN IF IsRunning(instance)
                      THEN IF IsSpot(instance)
                           THEN next(st)
                           ELSE next(Issue(st, [op |-> "stop_instances", InstanceIds |-> <<id>>]))
                      ELSE next(st)
            ELSE next(st)

RECURSIVE update_ec2_instances(_, _, _, _)
update_ec2_instances(instances, control_service, n, st) ==
    IF n > Len(instances) \/ st.raised # "" THEN st
    ELSE update_ec2_instances(instances, control_service, n + 1,
                              update_ec2_tags(instances[n], control_service, 1, st))

update_ec2(control_service, st) ==
    update_ec2_instances(Instances(reservations), control_service, 1,
                         Issue(st, [op |-> "describe_instances"]))

----------------------------------------------------------------------------
(* get_ec2_status *)

\* Mutant: the running check of the status is missing.
StatusIsRunning_Any(instance) == TRUE

StatusIsRunning(instance) == instance.State.Name = "running"

\* The tag loop of one instance: info after the tags from k on; raised is
\* carried in the pair <<info, raised>>.
RECURSIVE ec2_info(_, _, _, _)
ec2_info(instance, control_service, k, info) ==
    IF k > Len(instance.Tags) THEN <<info, "">>
    ELSE LET tag == instance.Tags[k]
             next(i) == ec2_info(instance, control_service, k + 1, i)
         IN IF tag.Key = "Name" THEN next(DictSet(info, StrEntry("Name", tag.Value)))
            ELSE IF tag.Key # "Service" THEN next(info)
            ELSE IF ~HasServiceKey(control_service) THEN <<info, "KeyError">>
            ELSE IF tag.Value = TargetTag(control_service) /\ StatusIsRunning(instance)
                 THEN next(DictSet(DictSet(info, StrEntry("InstanceId", instance.InstanceId)),
                                   StrEntry("InstanceType", instance.InstanceType)))
                 ELSE next(info)

RECURSIVE get_ec2_status_instances(_, _, _, _)
get_ec2_status_instances(instances, control_service, n, st) ==
    IF n > Len(instances) \/ st.raised # "" THEN st
    ELSE LET r == ec2_info(instances[n], control_service, 1, <<>>)
             info == r[1]
             st1 == IF r[2] # "" THEN [st EXCEPT !.raised = r[2]]
                    ELSE IF Len(info) > 0 /\ DictHas(info, "InstanceId")
                         THEN [st EXCEPT !.result =
                                  Append(@, IF DictHas(info, "Name") THEN info
                                            ELSE DictSet(info, StrEntry("Name", "")))]
                         ELSE st
         IN get_ec2_status_instances(instances, control_service, n + 1, st1)

\* Returns [result, calls, raised]; calls extends the calls issued so far.
get_ec2_status(control_service, calls0) ==
    get_ec2_status_instances(Instances(reservations), control_service, 1,
        [result |-> <<>>, calls |-> Append(calls0, [op |-> "describe_instances"]), raised |-> ""])

----------------------------------------------------------------------------
(* update_auto_scaling_group and get_auto_scaling_group_status *)

\* The capacity update_auto_scaling_group sets for MinSize, MaxSize and
\* DesiredCapacity.
StartSize == 1
StopSize == 0

\* Mutant: only MaxSize and DesiredCapacity are set, MinSize stays 0.
UpdateCall_MinZero(group, size) ==
    [op |-> "update_auto_scaling_group",
     AutoScalingGroupName |-> group.AutoScalingGroupName,
     MinSize |-> 0, MaxSize |-> size, DesiredCapacity |-> size]

UpdateCall(group, size) ==
    [op |-> "update_auto_scaling_group",
     AutoScalingGroupName |-> group.AutoScalingGroupName,
     MinSize |-> size, MaxSize |-> size, DesiredCapacity |-> size]

RECURSIVE update_asg_tags(_, _, _, _)
update_asg_tags(group, control_service, k, st) ==
    IF k > Len(group.Tags) THEN st
    ELSE LET tag == group.Tags[k]
             action == control_service.action.str
             next(s) == update_asg_tags(group, control_service, k + 1, s)
         IN IF tag.Key # "Service" THEN next(st)
            ELSE IF ~HasServiceKey(control_service) THEN [st EXCEPT !.raised = "KeyError"]
            ELSE IF tag.Value # TargetTag(control_service) THEN next(st)
            ELSE IF action = "start" THEN next(Issue(st, UpdateCall(group, StartSize)))
            ELSE IF action = "stop" THEN next(Issue(st, UpdateCall(group, StopSize)))
            ELSE next(st)

RECURSIVE update_asg_groups(_, _, _, _)
update_asg_groups(gs, control_service, n, st) ==
    IF n > Len(gs) \/ st.raised # "" THEN st
    ELSE update_asg_groups(gs, control_service, n + 1,
                           update_asg_tags(gs[n], control_service, 1, st))

update_auto_scaling_group(control_service, st) ==
    update_asg_groups(groups, control_service, 1,
                      Issue(st, [op |-> "describe_auto_scaling_groups"]))

\* describe_auto_scaling_groups(AutoScalingGroupNames=[name])["AutoScalingGroups"]
DescribeByName(name) == SelectSeq(groups, LAMBDA g : g.AutoScalingGroupName = name)

RECURSIVE asg_status_tags(_, _, _, _)
asg_status_tags(group, control_service, k, st) ==
    IF k > Len(group.Tags) THEN st
    ELSE LET tag == group.Tags[k]
             next(s) == asg_status_tags(group, control_service, k + 1, s)
         IN IF tag.Key # "Service" THEN next(st)
            ELSE IF ~HasServiceKey(control_service) THEN [st EXCEPT !.raised = "KeyError"]
            ELSE IF tag.Value # TargetTag(control_service) THEN next(st)
            ELSE LET name == group.AutoScalingGroupName
                     _group == DescribeByName(name)[1]
                     st1 == Issue(st, [op |-> "describe_auto_scaling_groups",
                                       AutoScalingGroupNames |-> <<name>>])
                 IN next([st1 EXCEPT !.result =
                            Append(@, <<StrEntry("AutoScalingGroupName", _group.AutoScalingGroupName),
                                        NumEntry("Size", _group.DesiredCapacity)>>)])

RECURSIVE asg_status_groups(_, _, _, _)
asg_status_groups(gs, control_service, n, st) ==
    IF n > Len(gs) \/ st.raised # "" THEN st
    ELSE asg_status_groups(gs, control_service, n + 1,
                           asg_status_tags(gs[n], control_service, 1, st))

get_auto_scaling_group_status(control_service, calls0) ==
    asg_status_groups(groups, control_service, 1,
        [result |-> <<>>,
         calls |-> Append(calls0, [op |-> "describe_auto_scaling_groups"]),
         raised |-> ""])

----------------------------------------------------------------------------
(* get_aws_service_status and update_aws_service *)

\* res.append(x)
ResAppend(r, x) == Append(r, x)

RECURSIVE get_aws_service_status_from(_, _, _, _)
get_aws_service_status_from(aws_clients, control_service, n, st) ==
    IF n > Len(aws_clients) \/ st.raised # "" THEN st
    ELSE LET name == aws_clients[n].aws_service_name
             next(s) == get_aws_service_status_from(aws_clients, control_service, n + 1, s)
             merge(r) == [result |-> IF r.raised = "" THEN ResAppend(st.result, r.result)
                                     ELSE st.result,
                          calls |-> r.calls, raised |-> r.raised]
         IN IF name = "autoscaling"
            THEN next(merge(get_auto_scaling_group_status(control_service, st.calls)))
            ELSE IF name = "ec2"
            THEN next(merge(get_ec2_status(control_service, st.calls)))
            ELSE next(st)

get_aws_service_status(aws_clients, control_service) ==
    get_aws_service_status_from(aws_clients, control_service, 1,
                                [result |-> <<>>, calls |-> <<>>, raised |-> ""])

RECURSIVE update_aws_service_from(_, _, _, _)
update_aws_service_from(aws_clients, control_service, n, st) ==
    IF n > Len(aws_clients) \/ st.raised # "" THEN st
    ELSE LET name == aws_clients[n].aws_service_name
             next(s) == update_aws_service_from(aws_clients, control_service, n + 1, s)
         IN IF name = "autoscaling" THEN next(update_auto_scaling_group(control_service, st))
            ELSE IF name = "ec2" THEN next(update_ec2(control_service, st))
            ELSE next(st)

update_aws_service(aws_clients, control_service) ==
    update_aws_service_from(aws_clients, control_service, 1, [calls |-> <<>>, raised |-> ""])

----------------------------------------------------------------------------
(* json.dumps of the status list, as chunks, with the default separators *)

json_dumps_entry(entry) ==
    <<"\"" \o entry.key \o "\"", ": ",
      IF "num" \in DOMAIN entry THEN ToString(entry.num) ELSE "\"" \o entry.str \o "\"">>

RECURSIVE json_dumps_entries(_)
json_dumps_entries(d) ==
    IF d = <<>> THEN <<>>
    ELSE IF Len(d) = 1 THEN json_dumps_entry(d[1])
    ELSE json_dumps_entry(d[1]) \o <<", ">> \o json_dumps_entries(Tail(d))

json_dumps_dict(d) == <<"{">> \o json_dumps_entries(d) \o <<"}">>

RECURSIVE json_dumps_dicts(_)
json_dumps_dicts(l) ==
    IF l = <<>> THEN <<>>
    ELSE IF Len(l) = 1 THEN json_dumps_dict(l[1])
    ELSE json_dumps_dict(l[1]) \o <<", ">> \o json_dumps_dicts(Tail(l))

\* json.dumps of a list of dicts
json_dumps_list(l) == <<"[">> \o json_dumps_dicts(l) \o <<"]">>

RECURSIVE json_dumps_lists(_)
json_dumps_lists(ll) ==
    IF ll = <<>> THEN <<>>
    ELSE IF Len(ll) = 1 THEN json_dumps_list(ll[1])
    ELSE json_dumps_list(ll[1]) \o <<", ">> \o json_dumps_lists(Tail(ll))

\* json.dumps(res): res is a list with one list of dicts per appended element
json_dumps(r) == <<"[">> \o json_dumps_lists(r) \o <<"]">>

----------------------------------------------------------------------------
(* lambda_handler *)

\* "実行環境: " / "次のサービスが稼働しています\n" / "停止しています" /
\* "起動リクエストの受付を開始しました" / "停止リクエストの受付を開始しました"
MsgExecEnv == "jikko kankyo: "
MsgRunning == "tsugi no service ga kado shiteimasu\n"
MsgStopped == "teishi shiteimasu"
MsgStartAccepted == "kido request no uketsuke wo kaishi shimashita"
MsgStopAccepted == "teishi request no uketsuke wo kaishi shimashita"

\* The loop over control_service.aws_service: the clients built before the
\* first name without a client, and whether there was such a name.
RECURSIVE build_clients(_, _, _)
build_clients(names, n, aws_clients) ==
    IF n > Len(names) THEN [failed |-> FALSE, aws_clients |-> aws_clients]
    ELSE LET _s == get_resource(names[n])
         IN IF ~Truthy(_s) THEN [failed |-> TRUE, aws_clients |-> aws_clients]
            ELSE build_clients(names, n + 1, Append(aws_clients, _s))

Returned(resp, r, cs) ==
    [pc |-> "Responded", response |-> resp, exception |-> "", res |-> r, calls |-> cs]

Raised(exc, r, cs) ==
    [pc |-> "Raised", response |-> <<>>, exception |-> exc, res |-> r, calls |-> cs]

IsStatus(_action) == _action = "status"

\* Mutant: every action but status takes the update branch.
IsUpdate_NotStatus(_action) == _action # "status"

IsUpdate(_action) == _action = "start" \/ _action = "stop"

\* The outcome of lambda_handler(ev, context).
Handle(ev) ==
    LET v == validate_params(ev, exec_env)
        control_service == v.control_service
        built == build_clients(control_service.aws_service.list, 1, <<>>)
        aws_clients == built.aws_clients
        msg == IF control_service.exec_env # ""
               THEN <<MsgExecEnv, control_service.exec_env, "\n">> ELSE <<>>
        _action == control_service.action.str
        status == get_aws_service_status(aws_clients, control_service)
        body == json_dumps(status.result)
        update == update_aws_service(aws_clients, control_service)
    IN IF v.raised # "" THEN Raised(v.raised, <<>>, <<>>)
       ELSE IF DOMAIN v.validate_result # {} THEN Returned(v.validate_result, <<>>, <<>>)
       ELSE IF built.failed
            THEN Returned([statusCode |-> 400, body |-> json_dumps_str("aws_service is invalid!")],
                          <<>>, <<>>)
       ELSE IF IsStatus(_action)
            THEN IF status.raised # "" THEN Raised(status.raised, <<>>, status.calls)
                 ELSE Returned([statusCode |-> 200,
                                body |-> IF TruthyText(body)
                                         THEN msg \o <<MsgRunning>> \o body
                                         ELSE msg \o <<MsgStopped>>],
                               status.result, status.calls)
       ELSE IF IsUpdate(_action)
            THEN IF update.raised # "" THEN Raised(update.raised, <<>>, update.calls)
                 ELSE Returned([statusCode |-> 200,
                                body |-> IF _action = "start" THEN msg \o <<MsgStartAccepted>>
                                         ELSE IF _action = "stop" THEN msg \o <<MsgStopAccepted>>
                                         ELSE msg],
                               <<>>, update.calls)
       ELSE Returned([statusCode |-> 404, body |-> <<"Not Found!">>], <<>>, <<>>)

lambda_handler(ev) ==
    LET out == Handle(ev)
    IN /\ event' = ev
       /\ pc' = out.pc
       /\ response' = out.response
       /\ exception' = out.exception
       /\ res' = out.res
       /\ calls' = out.calls
       /\ UNCHANGED <<exec_env, reservations, groups>>

----------------------------------------------------------------------------
(* Provider inventories.  Every resource carries the Tags key the code     *)
(* subscripts, tag keys are unique per resource, and ids and names are     *)
(* unique and follow the enumeration order.                                *)

Tag(k, v) == [Key |-> k, Value |-> v]

TagValues == {Tag("Name", "web-1"), Tag("Service", "web"), Tag("Service", "db")}

TagLists ==
    {<<>>} \cup {<<t>> : t \in TagValues}
           \cup {<<t, u>> : t \in {Tag("Name", "web-1")}, u \in TagValues \ {Tag("Name", "web-1")}}
           \cup {<<u, t>> : t \in {Tag("Name", "web-1")}, u \in TagValues \ {Tag("Name", "web-1")}}

StateNames == {"running", "stopped", "pending"}

\* "" stands for an instance without the InstanceLifecycle key.
Lifecycles == {"", "spot"}

Instance(n, tags, state, lifecycle) ==
    LET base == [InstanceId |-> "i-" \o ToString(n), InstanceType |-> "t3.micro",
                 State |-> [Name |-> state], Tags |-> tags]
    IN IF lifecycle = "" THEN base
       ELSE [InstanceId |-> base.InstanceId, InstanceType |-> base.InstanceType,
             State |-> base.State, Tags |-> base.Tags, InstanceLifecycle |-> lifecycle]

InstanceAttributes == TagLists \X StateNames \X Lifecycles

\* The instances with the attributes f[1], .., f[Len(f)], in that order.
InstanceList(f) == [n \in 1..Len(f) |-> Instance(n, f[n][1], f[n][2], f[n][3])]

\* describe_instances groups the instances by the launch request that
\* created them: here the first instance was launched alone and the others
\* together.
Reservations(instances) ==
    IF instances = <<>> THEN <<>>
    ELSE IF Len(instances) = 1 THEN <<[Instances |-> instances]>>
    ELSE <<[Instances |-> SubSeq(instances, 1, 1)],
           [Instances |-> SubSeq(instances, 2, Len(instances))]>>

Capacities == {0, 1, 3}

Group(n, tags, capacity) ==
    [AutoScalingGroupName |-> "asg-" \o ToString(n), DesiredCapacity |-> capacity, Tags |-> tags]

GroupAttributes == TagLists \X Capacities

GroupList(f) == [n \in 1..Len(f) |-> Group(n, f[n][1], f[n][2])]

\* The inventories of the dispatcher scenarios.
ScenarioReservations ==
    {<<>>,
     Reservations(<<Instance(1, <<Tag("Name", "web-1"), Tag("Service", "web")>>, "running", "")>>),
     Reservations(<<Instance(1, <<Tag("Service", "web")>>, "running", "spot"),
                    Instance(2, <<Tag("Service", "web")>>, "stopped", ""),
                    Instance(3, <<Tag("Service", "db")>>, "running", "")>>)}

ScenarioGroups ==
    {<<>>,
     <<Group(1, <<Tag("Service", "web")>>, 3)>>,
     <<Group(1, <<Tag("Service", "db")>>, 1), Group(2, <<Tag("Service", "web")>>, 0)>>}

----------------------------------------------------------------------------
(* Events *)

ServiceNames == {"ec2", "autoscaling", "s3", "bogus"}

ServiceLists == UNION {[1..len -> ServiceNames] : len \in 0..MaxServices}

\* Marks a key the event does not have.
Absent == [type |-> "absent"]

AwsServiceValues ==
    {PyNone, PyStr(""), PyStr("ec2"), PyInt(0), PyDict(EmptyDict)} \cup {PyList(l) : l \in ServiceLists}

TargetServiceValues ==
    {PyNone, PyDict(EmptyDict), PyStr("web"), PyList(<<>>),
     PyDict([service |-> "web"]), PyDict([tag_name |-> "web"])}

ActionValues ==
    {PyNone, PyStr(""), PyInt(0), PyInt(1)} \cup
    {PyStr(a) : a \in {"start", "stop", "status", "restart", "Status"}}

Event(aws_service, target_service, action) ==
    LET all == [aws_service |-> aws_service, target_service |-> target_service, action |-> action]
    IN [k \in {key \in DOMAIN all : all[key] # Absent} |-> all[k]]

Events ==
    {Event(a, t, c) : a \in AwsServiceValues \cup {Absent},
                      t \in TargetServiceValues \cup {Absent},
                      c \in ActionValues \cup {Absent}}

Ec2Events ==
    {Event(PyList(<<"ec2">>), PyDict([service |-> "web"]), PyStr(c)) :
        c \in {"start", "stop", "status"}}

AsgEvents ==
    {Event(PyList(<<"autoscaling">>), PyDict([service |-> "web"]), PyStr(c)) :
        c \in {"start", "stop", "status"}}

----------------------------------------------------------------------------
(* Specifications *)

InitInvocation ==
    /\ pc = "Received"
    /\ event = <<>>
    /\ response = <<>>
    /\ exception = ""
    /\ res = <<>>
    /\ calls = <<>>

\* One invocation, with an event of evs: Received -> Responded | Raised.
Invoke(evs) == pc = "Received" /\ \E ev \in evs : lambda_handler(ev)

\* The dispatcher over every event, on the scenario inventories.
Init ==
    /\ exec_env \in {"", "prod"}
    /\ reservations \in ScenarioReservations
    /\ groups \in ScenarioGroups
    /\ InitInvocation

Next == Invoke(Events)

Spec == Init /\ [][Next]_vars

\* EC2 requests over every EC2 inventory.
InitEc2 ==
    /\ exec_env = ""
    /\ \E len \in 0..MaxInstances : \E f \in [1..len -> InstanceAttributes] :
          reservations = Reservations(InstanceList(f))
    /\ groups = <<>>
    /\ InitInvocation

NextEc2 == Invoke(Ec2Events)

SpecEc2 == InitEc2 /\ [][NextEc2]_vars

\* Auto Scaling requests over every Auto Scaling inventory.
InitAsg ==
    /\ exec_env = ""
    /\ reservations = <<>>
    /\ \E len \in 0..MaxGroups : \E f \in [1..len -> GroupAttributes] :
          groups = GroupList(f)
    /\ InitInvocation

NextAsg == Invoke(AsgEvents)

SpecAsg == InitAsg /\ [][NextAsg]_vars

----------------------------------------------------------------------------
(* Vocabulary of the properties, stated on the event and the inventory     *)
(* without the handler's own operators.                                    *)

Invoked == pc # "Received"

FieldTypes == <<"list", "dict", "str">>

Present(ev, i) == EventKeys[i] \in DOMAIN ev

\* Field i is present, has the expected type and is not empty.
FieldOk(ev, i) ==
    /\ Present(ev, i)
    /\ ev[EventKeys[i]].type = FieldTypes[i]
    /\ ev[EventKeys[i]] \notin {PyList(<<>>), PyDict(EmptyDict), PyStr("")}

ValidRequest(ev) == \A i \in 1..3 : FieldOk(ev, i)

\* Field i is present with a value (not None) of another type than the
\* expected one.
WrongType(ev, i) ==
    Present(ev, i) /\ ev[EventKeys[i]].type \notin {FieldTypes[i], "NoneType"}

AllYieldClient(ev) ==
    \A n \in 1..Len(ev.aws_service.list) : ev.aws_service.list[n] \in Boto3Services

ActionIs(a) == event.action = PyStr(a)

RespondedWith(code, text) ==
    pc = "Responded" /\ response.statusCode = code /\ response.body = <<text>>

Contains(text, chunk) == \E i \in 1..Len(text) : text[i] = chunk

HasTag(resource, k, v) == \E i \in 1..Len(resource.Tags) : resource.Tags[i] = Tag(k, v)

HasTagKey(resource, k) == \E i \in 1..Len(resource.Tags) : resource.Tags[i].Key = k

Target == event.target_service.dict["service"]

Matching(resource) == HasTag(resource, "Service", Target)

Described == Instances(reservations)

StateIs(instance, name) == instance.State = [Name |-> name]

Spot(instance) ==
    "InstanceLifecycle" \in DOMAIN instance /\ instance.InstanceLifecycle = "spot"

CallsOf(op) == SelectSeq(calls, LAMBDA c : c.op = op)

----------------------------------------------------------------------------
\* C1: every request that lacks one of aws_service, target_service, action
\* is answered with statusCode 400 and the body '<field> is required!' for
\* the first missing field.
C1_MissingFieldIs400 ==
    (Invoked /\ FirstMissing(event) # 0) =>
        RespondedWith(400, "\"" \o EventKeys[FirstMissing(event)] \o " is required!\"")

\* C2: every request with a present field of the wrong type is answered
\* with statusCode 400 and '<field> is invalid!' for that field, whatever
\* the wrong-typed value is (empty and zero-like ones included).  Stated on
\* the requests that carry all three keys and whose earlier fields are valid.
C2_WrongTypeIsInvalid ==
    \A i \in 1..3 :
        (/\ Invoked
         /\ FirstMissing(event) = 0
         /\ WrongType(event, i)
         /\ \A j \in 1..(i - 1) : FieldOk(event, j))
        => RespondedWith(400, "\"" \o EventKeys[i] \o " is invalid!\"")

\* C3: a request that passes validation and whose kinds all yield a client
\* is answered 404 'Not Found!' when its action is none of start, stop,
\* status.
C3_UnknownActionIs404 ==
    (/\ Invoked
     /\ ValidRequest(event)
     /\ AllYieldClient(event)
     /\ event.action.str \notin {"start", "stop", "status"})
    => RespondedWith(404, "Not Found!")

C3_Witness ==
    /\ RespondedWith(404, "Not Found!")
    /\ ValidRequest(event)
    /\ ActionIs("restart")
    /\ event.aws_service = PyList(<<"ec2", "autoscaling">>)
    /\ event.target_service = PyDict([tag_name |-> "web"])

\* C4: a status request that matches no resource of any requested kind is
\* answered 200 with a body that contains the stopped message and no JSON
\* list.
C4_NoMatchSaysStopped ==
    (/\ Invoked
     /\ ValidRequest(event)
     /\ AllYieldClient(event)
     /\ ActionIs("status")
     /\ "service" \in DOMAIN event.target_service.dict
     /\ \A n \in 1..Len(Described) : ~Matching(Described[n])
     /\ \A n \in 1..Len(groups) : ~Matching(groups[n]))
    => /\ pc = "Responded"
       /\ response.statusCode = 200
       /\ Contains(response.body, MsgStopped)
       /\ ~Contains(response.body, "[")

\* C5: an EC2 stop issues no stop_instances for a spot instance, and issues
\* one for every running, tag-matching instance that is not spot, also when
\* it is enumerated after a skipped spot instance.
C5_StopSkipsSpot ==
    (pc = "Responded" /\ ActionIs("stop")) =>
        \A n \in 1..Len(Described) :
            LET instance == Described[n]
                stop == [op |-> "stop_instances", InstanceIds |-> <<instance.InstanceId>>]
            IN /\ Spot(instance) => ~Contains(calls, stop)
               /\ (StateIs(instance, "running") /\ Matching(instance) /\ ~Spot(instance))
                    => Contains(calls, stop)

C5_Witness ==
    /\ pc = "Responded"
    /\ ActionIs("stop")
    /\ \E n \in 1..Len(Described) : \E m \in (n + 1)..Len(Described) :
          /\ Spot(Described[n]) /\ StateIs(Described[n], "running") /\ Matching(Described[n])
          /\ ~Spot(Described[m]) /\ StateIs(Described[m], "running") /\ Matching(Described[m])
          /\ CallsOf("stop_instances") =
                <<[op |-> "stop_instances", InstanceIds |-> <<Described[m].InstanceId>>]>>

\* C6: an EC2 start issues as many start_instances calls as there are
\* instances that are tagged Service == target and stopped, and each call is
\* for such an instance.
C6_StartOnlyStopped ==
    (pc = "Responded" /\ ActionIs("start")) =>
        LET stopped == {n \in 1..Len(Described) :
                           Matching(Described[n]) /\ StateIs(Described[n], "stopped")}
            starts == CallsOf("start_instances")
        IN /\ Len(starts) = Cardinality(stopped)
           /\ \A i \in 1..Len(starts) :
                 \E n \in stopped : starts[i].InstanceIds = <<Described[n].InstanceId>>

C6_Witness ==
    /\ pc = "Responded"
    /\ ActionIs("start")
    /\ Len(CallsOf("start_instances")) = 1
    /\ \E n \in 1..Len(Described) : Matching(Described[n]) /\ StateIs(Described[n], "running")
    /\ \E n \in 1..Len(Described) : Matching(Described[n]) /\ StateIs(Described[n], "stopped")

\* C7: an ASG start calls update_auto_scaling_group with MinSize, MaxSize
\* and DesiredCapacity 1 on every group tagged Service == target, whatever
\* its capacity was, and on no other group; an ASG stop does so with 0.
C7_AsgCapacity ==
    (pc = "Responded" /\ (ActionIs("start") \/ ActionIs("stop"))) =>
        LET size == IF ActionIs("start") THEN 1 ELSE 0
            updates == CallsOf("update_auto_scaling_group")
            update(group) == [op |-> "update_auto_scaling_group",
                              AutoScalingGroupName |-> group.AutoScalingGroupName,
                              MinSize |-> size, MaxSize |-> size, DesiredCapacity |-> size]
        IN /\ \A n \in 1..Len(groups) : Matching(groups[n]) => Contains(updates, update(groups[n]))
           /\ \A i \in 1..Len(updates) :
                 \E n \in 1..Len(groups) : Matching(groups[n]) /\ updates[i] = update(groups[n])

C7_Witness ==
    /\ pc = "Responded"
    /\ ActionIs("start")
    /\ Len(groups) = 2
    /\ Matching(groups[1]) /\ groups[1].DesiredCapacity = 3
    /\ ~Matching(groups[2])
    /\ CallsOf("update_auto_scaling_group") =
          <<[op |-> "update_auto_scaling_group", AutoScalingGroupName |-> "asg-1",
             MinSize |-> 1, MaxSize |-> 1, DesiredCapacity |-> 1]>>

StatusOf(name) ==
    LET control_service == ControlService(event.aws_service, event.target_service,
                                          event.action, exec_env)
    IN IF name = "ec2" THEN get_ec2_status(control_service, <<>>).result
       ELSE IF name = "autoscaling" THEN get_auto_scaling_group_status(control_service, <<>>).result
       ELSE <<>>

RECURSIVE ConcatStatus(_)
ConcatStatus(names) ==
    IF names = <<>> THEN <<>> ELSE StatusOf(Head(names)) \o ConcatStatus(Tail(names))

\* C9: the list a status request reports is the concatenation, in client
\* order, of the status lists of its clients: a flat list of records.
C9_StatusIsFlat ==
    (pc = "Responded" /\ ValidRequest(event) /\ ActionIs("status") /\ response.statusCode = 200)
        => res = ConcatStatus(event.aws_service.list)

\* The value of the Name tag of an instance, "" without one.
NameOf(instance) ==
    IF HasTagKey(instance, "Name")
    THEN instance.Tags[CHOOSE i \in 1..Len(instance.Tags) : instance.Tags[i].Key = "Name"].Value
    ELSE ""

\* C10: EC2 status returns one record per instance that is tagged
\* Service == target and running, in enumeration order, and no other
\* record; its Name is the value of the Name tag, "" without one, wherever
\* the Name tag stands among the tags.
C10_Ec2StatusRecords ==
    (pc = "Responded" /\ ActionIs("status")) =>
        LET listed == SelectSeq(Described,
                                LAMBDA x : Matching(x) /\ StateIs(x, "running"))
            result == res[1]
        IN /\ Len(result) = Len(listed)
           /\ \A i \in 1..Len(listed) :
                 /\ {result[i][k] : k \in 1..Len(result[i])} =
                       {StrEntry("Name", NameOf(listed[i])),
                        StrEntry("InstanceId", listed[i].InstanceId),
                        StrEntry("InstanceType", listed[i].InstanceType)}
                 /\ Len(result[i]) = 3

C10_Witness ==
    /\ pc = "Responded"
    /\ ActionIs("status")
    /\ Len(Described) = 2
    /\ Described[1].Tags = <<Tag("Service", "web"), Tag("Name", "web-1")>>
    /\ StateIs(Described[1], "stopped")
    /\ Described[2].Tags = <<Tag("Service", "web")>>
    /\ StateIs(Described[2], "running")
    /\ res[1] = << <<[key |-> "InstanceId", str |-> "i-2"],
                     [key |-> "InstanceType", str |-> "t3.micro"],
                     [key |-> "Name", str |-> ""]>> >>

====
